---- MODULE Spec2Model ----
(***************************************************************************)
(* DiscountMate: the HTTP handler layer (app/main.py), the metrics         *)
(* registry (app/metrics.py) and the discount model (app/model.py).        *)
(*                                                                         *)
(* Real numbers are fixed-point integers in hundredths: a basket total of  *)
(* 2.5 is 250, the discount 0.10 is 10, the clip bound 0.5 is 50.          *)
(* Durations and histogram bucket bounds are in milliseconds.              *)
(* A Python string is a sequence of one-character strings.                 *)
(***************************************************************************)
EXTENDS Integers, Sequences, FiniteSets, TLC

VARIABLES
    REQUESTS,   \* metrics.REQUESTS: label tuple -> value, one entry per child created by labels()
    ERRORS,     \* metrics.ERRORS: the counter's value
    LATENCY,    \* metrics.LATENCY: [sum, buckets], one count per bucket (the last is +Inf)
    made,       \* history: endpoint -> number of calls of it started so far
    done,       \* history: endpoint -> number of calls of it completed so far
    resp,       \* the response the last completed request sent to its caller
    req,        \* the last completed /recommend call: its payload and its response
    fresh,      \* history: what /recommend answers to each payload in the start state
    th,         \* thread -> the position and the locals of the handler that worker thread runs
    model,      \* DiscountModel.model: the fitted regression tree (NoModel: none constructed)
    pred        \* the last DiscountModel.predict call: its arguments and what it returned

vars == <<REQUESTS, ERRORS, LATENCY, made, done, resp, req, fresh, th, model, pred>>

(***************************************************************************)
(* Bounds of the model.                                                    *)
(***************************************************************************)
MaxCalls == 3       \* requests handled in one behaviour
NThreads == 2       \* worker threads running handlers concurrently

Threads == 1..NThreads

(***************************************************************************)
(* JSON values as the handler finds them in the payload dict.              *)
(***************************************************************************)
JV(kind, num, str) == [k |-> kind, n |-> num, s |-> str]

Absent    == JV("absent", 0, <<>>)      \* the key is not in the dict
JInt(i)   == JV("int", i * 100, <<>>)   \* a Python int within the range of a double
JFloat(h) == JV("float", h, <<>>)       \* a finite Python float, h hundredths
JBig(sg)  == JV("bigint", sg, <<>>)     \* a Python int beyond the range of a double, of sign sg
JInf(sg)  == JV("inf", sg, <<>>)        \* float infinity of sign sg (json.loads of 1e999)
JNaN      == JV("nan", 0, <<>>)         \* float NaN
JStr(s)   == JV("str", 0, s)
JBool(b)  == JV("bool", IF b THEN 1 ELSE 0, <<>>)
JNull     == JV("null", 0, <<>>)
JList     == JV("list", 0, <<>>)        \* a list or a dict

(***************************************************************************)
(* Python numbers as the coercions produce them: finite (n hundredths),    *)
(* infinite (n the sign), NaN, or an int beyond the double range (n the    *)
(* sign). A coercion returns a number or raises.                           *)
(***************************************************************************)
Num(class, n) == [ok |-> TRUE, exc |-> "", c |-> class, n |-> n]
Raise(e)      == [ok |-> FALSE, exc |-> e, c |-> "", n |-> 0]

Digit == [c \in {"0", "1", "2", "3", "4", "5", "6", "7", "8", "9"} |->
            CASE c = "0" -> 0 [] c = "1" -> 1 [] c = "2" -> 2 [] c = "3" -> 3
              [] c = "4" -> 4 [] c = "5" -> 5 [] c = "6" -> 6 [] c = "7" -> 7
              [] c = "8" -> 8 [] c = "9" -> 9]

IsDigits(s) == \A i \in 1..Len(s) : s[i] \in DOMAIN Digit

RECURSIVE NatOf(_)
NatOf(s) == IF s = <<>> THEN 0 ELSE NatOf(SubSeq(s, 1, Len(s) - 1)) * 10 + Digit[s[Len(s)]]

HasSign(s)  == s # <<>> /\ s[1] \in {"+", "-"}
Unsigned(s) == IF HasSign(s) THEN Tail(s) ELSE s
SignOf(s)   == IF HasSign(s) /\ s[1] = "-" THEN -1 ELSE 1

LowerChar(c) ==
    CASE c = "A" -> "a" [] c = "B" -> "b" [] c = "D" -> "d" [] c = "E" -> "e"
      [] c = "F" -> "f" [] c = "G" -> "g" [] c = "I" -> "i" [] c = "L" -> "l"
      [] c = "M" -> "m" [] c = "N" -> "n" [] c = "O" -> "o" [] c = "P" -> "p"
      [] c = "R" -> "r" [] c = "S" -> "s" [] c = "T" -> "t" [] c = "U" -> "u"
      [] c = "V" -> "v" [] c = "Y" -> "y" [] c = "Z" -> "z"
      [] OTHER -> c

\* str.lower()
Lower(s) == [i \in 1..Len(s) |-> LowerChar(s[i])]

\* The hundredths a fraction's digits stand for: its first two digits, padded.
FracOf(f) == IF Len(f) = 0 THEN 0
             ELSE IF Len(f) = 1 THEN Digit[f[1]] * 10
             ELSE Digit[f[1]] * 10 + Digit[f[2]]

\* float(str): [sign] digits [. digits] with a digit somewhere, or nan / inf /
\* infinity in any case; anything else raises ValueError.
FloatOfStr(s) ==
    LET u    == Unsigned(s)
        dots == {i \in 1..Len(u) : u[i] = "."}
    IN  IF Lower(u) = <<"n", "a", "n">> THEN Num("nan", 0)
        ELSE IF Lower(u) \in {<<"i", "n", "f">>, <<"i", "n", "f", "i", "n", "i", "t", "y">>}
             THEN Num("inf", SignOf(s))
        ELSE IF dots = {}
             THEN IF u # <<>> /\ IsDigits(u) THEN Num("fin", SignOf(s) * NatOf(u) * 100)
                  ELSE Raise("ValueError")
        ELSE IF Cardinality(dots) > 1 THEN Raise("ValueError")
        ELSE LET d == CHOOSE i \in dots : TRUE
                 ip == SubSeq(u, 1, d - 1)
                 fp == SubSeq(u, d + 1, Len(u))
             IN  IF IsDigits(ip) /\ IsDigits(fp) /\ Len(ip) + Len(fp) > 0
                 THEN Num("fin", SignOf(s) * (NatOf(ip) * 100 + FracOf(fp)))
                 ELSE Raise("ValueError")

\* int(str): [sign] digits; anything else raises ValueError.
IntOfStr(s) ==
    LET u == Unsigned(s)
    IN  IF u # <<>> /\ IsDigits(u) THEN Num("fin", SignOf(s) * NatOf(u) * 100)
        ELSE Raise("ValueError")

\* Truncation toward zero of h hundredths, in hundredths.
Trunc(h) == IF h >= 0 THEN (h \div 100) * 100 ELSE -(((-h) \div 100) * 100)

\* float(x)
PyFloat(x) ==
    CASE x.k = "int"    -> Num("fin", x.n)
      [] x.k = "float"  -> Num("fin", x.n)
      [] x.k = "bigint" -> Raise("OverflowError")
      [] x.k = "inf"    -> Num("inf", x.n)
      [] x.k = "nan"    -> Num("nan", 0)
      [] x.k = "bool"   -> Num("fin", x.n * 100)
      [] x.k = "str"    -> FloatOfStr(x.s)
      [] OTHER          -> Raise("TypeError")

\* int(x)
PyInt(x) ==
    CASE x.k = "int"    -> Num("fin", x.n)
      [] x.k = "float"  -> Num("fin", Trunc(x.n))
      [] x.k = "bigint" -> Num("big", x.n)
      [] x.k = "inf"    -> Raise("OverflowError")
      [] x.k = "nan"    -> Raise("ValueError")
      [] x.k = "bool"   -> Num("fin", x.n * 100)
      [] x.k = "str"    -> IntOfStr(x.s)
      [] OTHER          -> Raise("TypeError")

\* a < 0 for a float a: false for NaN.
LtZero(a) == (a.c = "fin" /\ a.n < 0) \/ (a.c = "inf" /\ a.n < 0)

\* a <= 0 for an int a.
LeZero(a) == (a.c = "fin" /\ a.n <= 0) \/ (a.c = "big" /\ a.n < 0)

\* dict.get(key, default)
Get(payload, key, default) == IF payload[key] = Absent THEN default ELSE payload[key]

\* Decimal digits of a natural number, as str() writes them.
RECURSIVE StrOfNat(_)
StrOfNat(i) ==
    LET d == CHOOSE c \in DOMAIN Digit : Digit[c] = i % 10
    IN  IF i < 10 THEN <<d>> ELSE Append(StrOfNat(i \div 10), d)

\* str(x), for the kinds of value the model passes as a tier.
PyStr(x) ==
    CASE x.k = "str"  -> x.s
      [] x.k = "null" -> <<"N", "o", "n", "e">>
      [] x.k = "bool" -> IF x.n = 1 THEN <<"T", "r", "u", "e">> ELSE <<"F", "a", "l", "s", "e">>
      [] x.k = "int"  -> IF x.n < 0 THEN <<"-">> \o StrOfNat((-x.n) \div 100)
                         ELSE StrOfNat(x.n \div 100)

(***************************************************************************)
(* The inputs the model draws from.                                        *)
(***************************************************************************)
Bronze   == <<"b", "r", "o", "n", "z", "e">>
Silver   == <<"s", "i", "l", "v", "e", "r">>
Gold     == <<"g", "o", "l", "d">>
Platinum == <<"p", "l", "a", "t", "i", "n", "u", "m">>

TotalValues ==
    { Absent, JInt(0), JInt(220), JInt(-1), JFloat(50), JFloat(-50),
      JBig(1), JBig(-1), JInf(1), JInf(-1), JNaN, JBool(TRUE), JNull,
      JStr(<<"2", ".", "5">>), JStr(<<"-", "1">>), JStr(<<"a", "b", "c">>) }

ItemsValues ==
    { Absent, JInt(5), JInt(0), JInt(-2), JFloat(150), JFloat(50), JFloat(-50),
      JBig(1), JBig(-1), JInf(1), JNaN, JBool(FALSE), JList,
      JStr(<<"3">>), JStr(<<"1", ".", "5">>), JStr(<<"-", "3">>) }

TierValues ==
    { Absent, JStr(Silver), JStr(<<"G", "O", "L", "D">>), JStr(<<"v", "i", "p">>),
      JNull, JInt(7) }

\* The payload dicts: every total with a valid and an invalid item count, every
\* item count with a valid and an invalid total, every tier with a valid basket.
Payloads ==
    [total : TotalValues, items : {Absent, JInt(0)}, tier : {Absent}]
    \cup [total : {JInt(220), JInt(-1)}, items : ItemsValues, tier : {JStr(Silver)}]
    \cup [total : {JFloat(50)}, items : {JInt(5)}, tier : TierValues]

RECURSIVE SeqOf(_)
SeqOf(set) ==
    IF set = {} THEN <<>>
    ELSE LET x == CHOOSE y \in set : TRUE IN <<x>> \o SeqOf(set \ {x})

\* The payloads in a fixed order, and a payload's place in it.
PayloadList == SeqOf(Payloads)
IndexOf(payload) == CHOOSE i \in 1..Len(PayloadList) : PayloadList[i] = payload

\* time.time() - t0, in milliseconds: the wall clock may also step back.
Durations == {-5, 6000}

(***************************************************************************)
(* app/metrics.py: the three instruments of the process.                   *)
(***************************************************************************)
\* The histogram's bucket bounds, in milliseconds; bucket 8 is +Inf.
UpperBounds == <<50, 100, 200, 500, 1000, 2000, 5000>>

NoChildren == [l \in {} |-> 0]

\* Counter.labels(...): the child of these label values, created at 0 on first use.
Labels(counter, l) == IF l \in DOMAIN counter THEN counter ELSE counter @@ (l :> 0)

\* Faulty variant: an increment without the lock, lost when two threads are in it at once.
IncChildUnlocked(counter, l) ==
    IF Cardinality({t \in Threads : th[t].pc = "inc"}) > 1 THEN Labels(counter, l)
    ELSE [Labels(counter, l) EXCEPT ![l] = @ + 1]

\* Counter.labels(...).inc()
IncChild(counter, l) == [Labels(counter, l) EXCEPT ![l] = @ + 1]

\* Counter.inc() of a counter without labels
Inc(value) == value + 1

\* The bucket an amount falls in: the first whose bound is not below it.
BucketOf(amount) ==
    IF \E i \in 1..Len(UpperBounds) : amount <= UpperBounds[i]
    THEN CHOOSE i \in 1..Len(UpperBounds) :
            /\ amount <= UpperBounds[i]
            /\ \A j \in 1..(i - 1) : amount > UpperBounds[j]
    ELSE Len(UpperBounds) + 1

\* Histogram.observe(amount)
Observe(h, amount) ==
    [sum |-> h.sum + amount, buckets |-> [h.buckets EXCEPT ![BucketOf(amount)] = @ + 1]]

RECURSIVE SumTo(_, _)
SumTo(f, n) == IF n = 0 THEN 0 ELSE f[n] + SumTo(f, n - 1)

\* The histogram's observation count (its +Inf cumulative bucket).
Count(h) == SumTo(h.buckets, Len(UpperBounds) + 1)

RECURSIVE SumOver(_, _)
SumOver(counter, ls) ==
    IF ls = {} THEN 0
    ELSE LET l == CHOOSE x \in ls : TRUE IN counter[l] + SumOver(counter, ls \ {l})

\* A labelled counter's value summed over its children.
Total(counter) == SumOver(counter, DOMAIN counter)

\* A labelled counter's value for one label tuple (0 when it has no such child).
ValueOf(counter, l) == IF l \in DOMAIN counter THEN counter[l] ELSE 0

(***************************************************************************)
(* app/main.py: the handlers.                                              *)
(***************************************************************************)
Response(code, body) == [code |-> code, body |-> body]

\* raise HTTPException(status_code=code, detail=detail)
HTTPException(code, detail) == Response(code, [detail |-> detail])

\* The placeholder discount of /recommend: 0.10.
PlaceholderDiscount == 10

\* Faulty variant: items <= 1 for items <= 0.
RejectsAtOne(total, items) ==
    LtZero(total) \/ (items.c = "fin" /\ items.n <= 100) \/ (items.c = "big" /\ items.n < 0)

\* Faulty variant: items < 0 for items <= 0.
RejectsNegativeOnly(total, items) ==
    LtZero(total) \/ (items.c = "fin" /\ items.n < 0) \/ (items.c = "big" /\ items.n < 0)

\* The check of line 21: total < 0 or items <= 0.
Rejects(total, items) == LtZero(total) \/ LeZero(items)

\* Faulty variant: the handler refuses every request once an error was simulated.
RecommendTryTripped(payload) ==
    LET total == PyFloat(Get(payload, "total", JInt(0)))
        items == PyInt(Get(payload, "items", JInt(1)))
    IN  IF ~total.ok THEN [raised |-> TRUE, exc |-> total.exc]
        ELSE IF ~items.ok THEN [raised |-> TRUE, exc |-> items.exc]
        ELSE IF ERRORS > 0 \/ LtZero(total) \/ LeZero(items)
             THEN [raised |-> TRUE, exc |-> "ValueError"]
        ELSE [raised |-> FALSE, value |-> [discount |-> PlaceholderDiscount]]

\* The try block of recommend: what it returns, or that it raised.
RecommendTry(payload) ==
    LET total == PyFloat(Get(payload, "total", JInt(0)))
        items == PyInt(Get(payload, "items", JInt(1)))
        tier  == PyStr(Get(payload, "tier", JStr(Bronze)))
    IN  IF ~total.ok THEN [raised |-> TRUE, exc |-> total.exc]
        ELSE IF ~items.ok THEN [raised |-> TRUE, exc |-> items.exc]
        ELSE IF Rejects(total, items) THEN [raised |-> TRUE, exc |-> "ValueError"]
        ELSE [raised |-> FALSE, value |-> [discount |-> PlaceholderDiscount]]

\* Faulty variant: the except clause does not set status.
StatusLabelUnset(raised) == "200"

\* The status label the handler holds when it reaches the finally block.
StatusLabel(raised) == IF raised THEN "400" ELSE "200"

\* recommend up to its finally block: the status label and the pending response
\* (the value returned, or the HTTPException raised by the except clause).
RecommendBody(payload) ==
    LET r == RecommendTry(payload)
    IN  [status |-> StatusLabel(r.raised),
         out    |-> IF r.raised THEN HTTPException(400, "invalid request")
                    ELSE Response(200, r.value)]

RecommendLabel(status) == <<"/recommend", "POST", status>>

Endpoints == {"health", "recommend", "metrics", "simulate_error"}

NoCall  == [op |-> "none"]
NoModel == [kind |-> "none"]
Idle    == [pc |-> "idle"]

Calls(h) == h["health"] + h["recommend"] + h["metrics"] + h["simulate_error"]

Bump(h, op) == [h EXCEPT ![op] = @ + 1]

\* The state of the process once app/main.py and app/metrics.py are imported.
Started ==
    /\ REQUESTS = NoChildren
    /\ ERRORS = 0
    /\ LATENCY = [sum |-> 0, buckets |-> [i \in 1..(Len(UpperBounds) + 1) |-> 0]]
    /\ made = [e \in Endpoints |-> 0]
    /\ done = [e \in Endpoints |-> 0]
    /\ resp = NoCall
    /\ req = NoCall
    /\ fresh = [i \in 1..Len(PayloadList) |-> RecommendBody(PayloadList[i]).out]
    /\ th = [t \in Threads |-> Idle]
    /\ pred = NoCall

\* app/main.py does not import app/model.py: the service constructs no DiscountModel.
Init == Started /\ model = NoModel

(***************************************************************************)
(* One request at a time: each action is one handler, start to end.        *)
(***************************************************************************)
\* GET /health
Health ==
    /\ Calls(made) < MaxCalls
    /\ made' = Bump(made, "health")
    /\ done' = Bump(done, "health")
    /\ resp' = [op |-> "health", r |-> Response(200, [status |-> "ok"])]
    /\ UNCHANGED <<REQUESTS, ERRORS, LATENCY, req, fresh, th, model, pred>>

\* Faulty variant: a rejected request also counts as an error.
RecommendCountingFailures ==
    \E payload \in Payloads, dt \in Durations :
        LET b == RecommendBody(payload)
        IN  /\ Calls(made) < MaxCalls
            /\ made' = Bump(made, "recommend")
            /\ done' = Bump(done, "recommend")
            /\ LATENCY' = Observe(LATENCY, dt)
            /\ REQUESTS' = IncChild(REQUESTS, RecommendLabel(b.status))
            /\ ERRORS' = IF b.status = "400" THEN Inc(ERRORS) ELSE ERRORS
            /\ resp' = [op |-> "recommend", r |-> b.out]
            /\ req' = [op |-> "recommend", payload |-> payload, r |-> b.out]
            /\ UNCHANGED <<fresh, th, model, pred>>

\* POST /recommend with a JSON object as its body (the serving layer answers any
\* other body itself and never calls the handler)
Recommend ==
    \E payload \in Payloads, dt \in Durations :
        LET b == RecommendBody(payload)
        IN  /\ Calls(made) < MaxCalls
            /\ made' = Bump(made, "recommend")
            /\ done' = Bump(done, "recommend")
            /\ LATENCY' = Observe(LATENCY, dt)
            /\ REQUESTS' = IncChild(REQUESTS, RecommendLabel(b.status))
            /\ resp' = [op |-> "recommend", r |-> b.out]
            /\ req' = [op |-> "recommend", payload |-> payload, r |-> b.out]
            /\ UNCHANGED <<ERRORS, fresh, th, model, pred>>

\* GET /metrics: the registry as generate_latest() reads it (taken here as one
\* read of all three instruments)
Metrics ==
    /\ Calls(made) < MaxCalls
    /\ made' = Bump(made, "metrics")
    /\ done' = Bump(done, "metrics")
    /\ resp' = [op |-> "metrics",
                r  |-> Response(200, [requests |-> REQUESTS, errors |-> ERRORS,
                                      latency |-> LATENCY])]
    /\ UNCHANGED <<REQUESTS, ERRORS, LATENCY, req, fresh, th, model, pred>>

\* Faulty variant: the handler raises before it counts the error.
SimulateErrorUncounted ==
    /\ Calls(made) < MaxCalls
    /\ made' = Bump(made, "simulate_error")
    /\ done' = Bump(done, "simulate_error")
    /\ resp' = [op |-> "simulate_error", r |-> HTTPException(500, "simulated failure")]
    /\ UNCHANGED <<REQUESTS, ERRORS, LATENCY, req, fresh, th, model, pred>>

\* POST /simulate_error
SimulateError ==
    /\ Calls(made) < MaxCalls
    /\ made' = Bump(made, "simulate_error")
    /\ done' = Bump(done, "simulate_error")
    /\ ERRORS' = Inc(ERRORS)
    /\ resp' = [op |-> "simulate_error", r |-> HTTPException(500, "simulated failure")]
    /\ UNCHANGED <<REQUESTS, LATENCY, req, fresh, th, model, pred>>

Next == Health \/ Recommend \/ Metrics \/ SimulateError

Spec == Init /\ [][Next]_vars

(***************************************************************************)
(* Concurrent requests. The serving layer runs each handler on a worker    *)
(* thread; a step is a handler's code up to and including its next call on *)
(* a shared instrument. Counter.inc and Histogram.observe are each one     *)
(* step: prometheus_client guards every value with a lock.                 *)
(***************************************************************************)
\* GET /health on worker t
CHealth(t) == th[t] = Idle /\ Health

\* GET /metrics on worker t
CMetrics(t) == th[t] = Idle /\ Metrics

\* recommend, lines 15-27: t0, the try block and the except clause
CRecommendTry(t) ==
    \E payload \in Payloads :
        LET b == RecommendBody(payload)
        IN  /\ th[t] = Idle
            /\ Calls(made) < MaxCalls
            /\ made' = Bump(made, "recommend")
            /\ th' = [th EXCEPT ![t] = [pc |-> "observe", status |-> b.status, out |-> b.out]]
            /\ UNCHANGED <<REQUESTS, ERRORS, LATENCY, done, resp, req, fresh, model, pred>>

\* recommend, line 29: LATENCY.observe(time.time() - t0)
CRecommendObserve(t) ==
    \E dt \in Durations :
        /\ th[t].pc = "observe"
        /\ LATENCY' = Observe(LATENCY, dt)
        /\ th' = [th EXCEPT ![t].pc = "inc"]
        /\ UNCHANGED <<REQUESTS, ERRORS, made, done, resp, req, fresh, model, pred>>

\* recommend, line 30: REQUESTS.labels(...).inc(), and the pending response goes out
CRecommendInc(t) ==
    /\ th[t].pc = "inc"
    /\ REQUESTS' = IncChild(REQUESTS, RecommendLabel(th[t].status))
    /\ done' = Bump(done, "recommend")
    /\ resp' = [op |-> "recommend", r |-> th[t].out]
    /\ th' = [th EXCEPT ![t] = Idle]
    /\ UNCHANGED <<ERRORS, LATENCY, made, req, fresh, model, pred>>

\* simulate_error, line 38: ERRORS.inc()
CSimulateInc(t) ==
    /\ th[t] = Idle
    /\ Calls(made) < MaxCalls
    /\ made' = Bump(made, "simulate_error")
    /\ ERRORS' = Inc(ERRORS)
    /\ th' = [th EXCEPT ![t] = [pc |-> "raise"]]
    /\ UNCHANGED <<REQUESTS, LATENCY, done, resp, req, fresh, model, pred>>

\* Faulty variant: the failure is also counted as a request.
CSimulateRaiseCounted(t) ==
    /\ th[t].pc = "raise"
    /\ done' = Bump(done, "simulate_error")
    /\ REQUESTS' = IncChild(REQUESTS, <<"/simulate_error", "POST", "500">>)
    /\ resp' = [op |-> "simulate_error", r |-> HTTPException(500, "simulated failure")]
    /\ th' = [th EXCEPT ![t] = Idle]
    /\ UNCHANGED <<ERRORS, LATENCY, made, req, fresh, model, pred>>

\* simulate_error, line 39: raise HTTPException(500)
CSimulateRaise(t) ==
    /\ th[t].pc = "raise"
    /\ done' = Bump(done, "simulate_error")
    /\ resp' = [op |-> "simulate_error", r |-> HTTPException(500, "simulated failure")]
    /\ th' = [th EXCEPT ![t] = Idle]
    /\ UNCHANGED <<REQUESTS, ERRORS, LATENCY, made, req, fresh, model, pred>>

ConcNext ==
    \E t \in Threads :
        \/ CHealth(t)
        \/ CMetrics(t)
        \/ CRecommendTry(t)
        \/ CRecommendObserve(t)
        \/ CRecommendInc(t)
        \/ CSimulateInc(t)
        \/ CSimulateRaise(t)

ConcSpec == Init /\ [][ConcNext]_vars

(***************************************************************************)
(* app/model.py: DiscountModel.                                            *)
(***************************************************************************)
TIERS == <<Bronze, Silver, Gold, Platinum>>

\* {t: i for i, t in enumerate(TIERS)}
TIER_INDEX == [t \in {TIERS[i] : i \in 1..Len(TIERS)} |-> (CHOOSE i \in 1..Len(TIERS) : TIERS[i] = t) - 1]

\* Faulty variant: the lookup without lower().
TierOrdinalCaseSensitive(tier) ==
    LET key == PyStr(tier)
    IN  IF key \in DOMAIN TIER_INDEX THEN TIER_INDEX[key] ELSE 0

\* TIER_INDEX.get(str(tier).lower(), 0)
TierOrdinal(tier) ==
    LET key == Lower(PyStr(tier))
    IN  IF key \in DOMAIN TIER_INDEX THEN TIER_INDEX[key] ELSE 0

\* DecisionTreeRegressor.predict on one sample x = <<total, items, ti>>: a node
\* sends the sample left when its feature is at most the threshold.
RECURSIVE TreePredict(_, _)
TreePredict(tree, x) ==
    IF tree.kind = "leaf" THEN tree.value
    ELSE IF x[tree.feature] <= tree.threshold THEN TreePredict(tree.left, x)
    ELSE TreePredict(tree.right, x)

\* Python's min(a, b) and max(a, b): the first argument unless the second beats it.
PyMin(a, b) == IF b < a THEN b ELSE a
PyMax(a, b) == IF b > a THEN b ELSE a

\* max(0.0, min(pred, 0.5))
Clip(p) == PyMax(0, PyMin(p, 50))

\* DiscountModel.predict(total, items, tier): its locals and what it returns
Predict(total, items, tier) ==
    LET ti  == TierOrdinal(tier)
        raw == TreePredict(model, <<total, items, ti>>)
    IN  [ti |-> ti, raw |-> raw, r |-> Clip(raw)]

\* The trees fit() may produce. The fitted tree itself is the work of numpy's
\* generator and scikit-learn on 400 random samples; the model takes any tree of
\* this family: a leaf, one split on any feature, or a split on the total above
\* a split on the tier. Leaf values lie below, inside and above [0, 0.5].
LeafValues == {-10, 20, 50, 70}
Leaves     == [kind : {"leaf"}, value : LeafValues]
Splits(lefts, rights) ==
    [kind : {"node"}, feature : {1}, threshold : {10000}, left : lefts, right : rights]
    \cup [kind : {"node"}, feature : {2}, threshold : {5}, left : lefts, right : rights]
    \cup [kind : {"node"}, feature : {3}, threshold : {0, 1}, left : lefts, right : rights]
TierSplits == {s \in Splits(Leaves, Leaves) : s.feature = 3 /\ s.threshold = 0}
Trees ==
    Leaves \cup Splits(Leaves, Leaves)
    \cup {s \in Splits(TierSplits, Leaves) : s.feature = 1}

\* The arguments predict is called with: totals in hundredths, item counts, tiers.
PredictTotals == {5000, 30000}
PredictItems  == {2, 10}
PredictTiers  ==
    { JStr(Bronze), JStr(Gold), JStr(<<"G", "o", "L", "D">>), JStr(<<"S", "I", "L", "V", "E", "R">>),
      JStr(Platinum), JStr(<<"v", "i", "p">>), JStr(<<>>), JNull, JInt(2) }

\* m = DiscountModel(): the tree is fitted once, in __init__
ModelInit == Started /\ model \in Trees

\* m.predict(total, items, tier)
PredictCall ==
    \E total \in PredictTotals, items \in PredictItems, tier \in PredictTiers :
        /\ pred' = [op |-> "predict", total |-> total, items |-> items, tier |-> tier,
                    out |-> Predict(total, items, tier)]
        /\ UNCHANGED <<REQUESTS, ERRORS, LATENCY, made, done, resp, req, fresh, th, model>>

ModelNext == PredictCall

ModelSpec == ModelInit /\ [][ModelNext]_vars

(***************************************************************************)
(* Properties of POST /recommend, one request at a time (Spec).            *)
(***************************************************************************)
Code(call) == call.r.code

\* The value is a JSON number n with n >= bound (bound in hundredths), or the
\* key is absent and its default is.
AtLeast(x, bound, default) ==
    \/ x = Absent /\ default >= bound
    \/ x.k \in {"int", "float"} /\ x.n >= bound
    \/ x.k \in {"bigint", "inf"} /\ x.n > 0

\* total is a number the double range holds (or +infinity); items is a finite number.
Representable(payload) ==
    /\ payload["total"].k # "bigint"
    /\ payload["items"].k # "inf"

Accepted(call) ==
    /\ Code(call) = 200
    /\ DOMAIN call.r.body = {"discount"}
    /\ 0 <= call.r.body.discount
    /\ call.r.body.discount <= 50

\* C1 as stated: every /recommend request whose payload has total >= 0 and
\* items >= 1 (absent fields defaulting to 0 and 1, any tier) is answered 200
\* with a discount d, 0 <= d <= 0.5.
C1_AsStated ==
    (/\ req.op = "recommend"
     /\ AtLeast(req.payload["total"], 0, 0)
     /\ AtLeast(req.payload["items"], 100, 100))
    => Accepted(req)

\* C1 as amended: every /recommend request whose payload has total >= 0 and
\* items >= 1, where total is not an integer beyond the range of a double and
\* items is not infinite, is answered 200 with a discount d, 0 <= d <= 0.5.
C1_ValidAccepted ==
    (/\ req.op = "recommend"
     /\ AtLeast(req.payload["total"], 0, 0)
     /\ AtLeast(req.payload["items"], 100, 100)
     /\ Representable(req.payload))
    => Accepted(req)

C1_Witness ==
    /\ req.op = "recommend"
    /\ req.payload = [total |-> JInt(220), items |-> JInt(5), tier |-> JStr(Silver)]
    /\ Accepted(req)

\* The handler's total and items: the payload's fields, defaulted and coerced.
TotalOf(payload) == PyFloat(Get(payload, "total", JInt(0)))
ItemsOf(payload) == PyInt(Get(payload, "items", JInt(1)))

\* C2: every /recommend request in which total or items cannot be coerced to a
\* number, or total < 0, or items <= 0, fails with HTTP 400 and detail
\* "invalid request", and carries no discount.
C2_InvalidRejected ==
    (/\ req.op = "recommend"
     /\ \/ ~TotalOf(req.payload).ok
        \/ ~ItemsOf(req.payload).ok
        \/ LtZero(TotalOf(req.payload))
        \/ LeZero(ItemsOf(req.payload)))
    => /\ Code(req) = 400
       /\ req.r.body = [detail |-> "invalid request"]

C2_Witness ==
    /\ req.op = "recommend"
    /\ req.payload = [total |-> JInt(-1), items |-> JInt(5), tier |-> JStr(Silver)]
    /\ Code(req) = 400

\* C3: every /recommend call, failed or not, records exactly one latency
\* observation and exactly one request-counter increment, on the child labelled
\* ("/recommend", "POST", s) with s the status code its caller received.
C3_OneObservationOneIncrement ==
    [][made'["recommend"] = made["recommend"] + 1 =>
        LET s == IF Code(resp') = 200 THEN "200" ELSE "400"
        IN  /\ Code(resp') \in {200, 400}
            /\ Count(LATENCY') = Count(LATENCY) + 1
            /\ Total(REQUESTS') = Total(REQUESTS) + 1
            /\ ValueOf(REQUESTS', RecommendLabel(s)) = ValueOf(REQUESTS, RecommendLabel(s)) + 1
      ]_vars

C3_Witness ==
    /\ resp.op = "recommend"
    /\ Code(resp) = 400
    /\ ValueOf(REQUESTS, RecommendLabel("400")) = 1
    /\ ValueOf(REQUESTS, RecommendLabel("200")) = 1
    /\ Count(LATENCY) = 2

\* C4: every POST /simulate_error, in any state, fails with HTTP 500 and detail
\* "simulated failure" and raises the error counter by exactly 1.
C4_SimulateError ==
    [][made'["simulate_error"] = made["simulate_error"] + 1 =>
        /\ ERRORS' = ERRORS + 1
        /\ resp'.op = "simulate_error"
        /\ resp'.r = [code |-> 500, body |-> [detail |-> "simulated failure"]]
      ]_vars

C4_Witness ==
    /\ resp.op = "simulate_error"
    /\ Code(resp) = 500
    /\ ERRORS = 2
    /\ made["recommend"] = 1

\* C5: only POST /simulate_error changes the error counter: it equals the number
\* of /simulate_error calls made, never decreases, and a step of /health,
\* /metrics or /recommend (failed or not) leaves it unchanged.
C5_ErrorsOnlyBySimulate ==
    /\ [](ERRORS = made["simulate_error"])
    /\ [][/\ ERRORS' >= ERRORS
          /\ made'["simulate_error"] = made["simulate_error"] => ERRORS' = ERRORS]_vars

C5_Witness ==
    /\ ERRORS = 1
    /\ made["simulate_error"] = 1
    /\ resp.op = "recommend"
    /\ Code(resp) = 400
    /\ made["health"] + made["metrics"] = 1

\* C6: /recommend is deterministic and history-independent: whatever requests
\* were handled before it and whatever the metrics hold, a call answers its
\* payload exactly as the freshly started process answers that payload (so any
\* two calls with the same payload answer alike), and every accepted request
\* gets the discount 0.10 exactly.
C6_Deterministic ==
    req.op = "recommend" =>
        /\ req.r = fresh[IndexOf(req.payload)]
        /\ Code(req) = 200 => req.r.body = [discount |-> 10]

C6_Witness ==
    /\ req.op = "recommend"
    /\ made["recommend"] = 2
    /\ made["simulate_error"] = 1
    /\ Code(req) = 200
    /\ req.payload["tier"] = JStr(<<"G", "O", "L", "D">>)

(***************************************************************************)
(* Properties of DiscountModel.predict (ModelSpec).                        *)
(***************************************************************************)
\* The ordinal of a tier: its place among bronze, silver, gold, platinum with
\* the case of its letters ignored, and 0 when it is none of them.
OrdinalOf(tier) ==
    LET key == Lower(PyStr(tier))
    IN  CASE key = Bronze   -> 0
          [] key = Silver   -> 1
          [] key = Gold     -> 2
          [] key = Platinum -> 3
          [] OTHER          -> 0

Recognized(tier) == Lower(PyStr(tier)) \in {Bronze, Silver, Gold, Platinum}

Quiescent == \A t \in Threads : th[t] = Idle

RecommendInProgress == \E t \in Threads : th[t].pc \in {"observe", "inc"}

\* C9: under any interleaving no metric update is lost: once every call made
\* has completed, N of /recommend and M of /simulate_error, the request counter
\* summed over its labels is N, the histogram holds N observations and the
\* error counter is M.
C9_NoLostUpdate ==
    (Quiescent /\ done = made) =>
        /\ Total(REQUESTS) = done["recommend"]
        /\ Count(LATENCY) = done["recommend"]
        /\ ERRORS = done["simulate_error"]

C9_Witness ==
    /\ Quiescent
    /\ done["recommend"] = 2
    /\ done["simulate_error"] = 1
    /\ ValueOf(REQUESTS, RecommendLabel("200")) = 1
    /\ ValueOf(REQUESTS, RecommendLabel("400")) = 1
    /\ ERRORS = 1

\* C10: whenever no /recommend call is in progress, the histogram's observation
\* count is the request counter's value for ("/recommend","POST","200") plus
\* that for ("/recommend","POST","400"); the request counter never holds another
\* label combination; neither instrument ever shrinks; and no step of /health,
\* /metrics or /simulate_error changes either.
C10_HistogramMatchesRequests ==
    /\ [](DOMAIN REQUESTS \subseteq {RecommendLabel("200"), RecommendLabel("400")})
    /\ [](~RecommendInProgress =>
            Count(LATENCY) = ValueOf(REQUESTS, RecommendLabel("200"))
                             + ValueOf(REQUESTS, RecommendLabel("400")))
    /\ [][/\ \A l \in DOMAIN REQUESTS : l \in DOMAIN REQUESTS' /\ REQUESTS'[l] >= REQUESTS[l]
          /\ \A i \in DOMAIN LATENCY.buckets : LATENCY'.buckets[i] >= LATENCY.buckets[i]
          /\ (\E e \in {"health", "metrics", "simulate_error"} :
                  made'[e] # made[e] \/ done'[e] # done[e])
             => REQUESTS' = REQUESTS /\ LATENCY' = LATENCY]_vars

C10_Witness ==
    /\ ~RecommendInProgress
    /\ \E t \in Threads : th[t].pc = "raise"
    /\ Count(LATENCY) = 2
    /\ ValueOf(REQUESTS, RecommendLabel("200")) = 1
    /\ ValueOf(REQUESTS, RecommendLabel("400")) = 1

====
